---- MODULE Spec2Model ----
(***************************************************************************)
(* Streaming session orchestrator of the form-filling web app: the Home    *)
(* component (its React state, its handlers and effects), the guards of    *)
(* ChatPanel and LeftPanel in front of the handlers, and the Session Store *)
(* the handlers write to.                                                  *)
(*                                                                         *)
(* One action is one run of a handler between two suspension points: the   *)
(* synchronous part of a handler up to its first await, the continuation   *)
(* after one awaited stream event, the continuation after the stream ends. *)
(* A handler created by useCallback reads the state of the render that     *)
(* created it; the values it captured are kept in the handler's record.    *)
(***************************************************************************)
EXTENDS Integers, Sequences, FiniteSets, TLC

\* ------------------------------------------------------------- bounds
MaxOps == 3         \* operations the user starts in one behaviour: file
                    \* selections, resets, fill turns, context parses, view
                    \* switches, page reloads
MaxEvents == 3      \* events the streams deliver in one behaviour

\* ------------------------------------------------------------- values
\* An optional string that is not there (undefined / null).
Absent == "<absent>"
\* An optional object that is not there is the empty tuple, one that is
\* there is a 1-tuple.
None == <<>>
Some(x) == <<x>>
IsSome(o) == o # None
Get(o) == o[1]
\* applied_count that is not there.
NoCount == -1
\* No File object.
NoFile == 0

\* JavaScript truthiness of an optional string.
Truthy(s) == s # Absent /\ s # ""

RECURSIVE Concat(_)
\* Array.prototype.join("") of a sequence of strings.
Concat(ss) == IF ss = <<>> THEN "" ELSE Head(ss) \o Concat(Tail(ss))

RECURSIVE Join(_, _)
\* Array.prototype.join(sep).
Join(ss, sep) ==
    IF ss = <<>> THEN ""
    ELSE IF Len(ss) = 1 THEN Head(ss)
    ELSE Head(ss) \o sep \o Join(Tail(ss), sep)

\* Object.keys(map).length
KeyCount(m) == Cardinality(DOMAIN m)

\* ------------------------------------------------------------- stream events
\* A StreamEvent; a field that is not there holds Absent / None / NoCount.
\* friendly descriptions and text are sequences of tokens, so that the
\* markup stripping and the preview cut are computed, not assumed.
Event(t) ==
    [type |-> t, message |-> Absent, error |-> Absent, text |-> None,
     friendly |-> None, applied_count |-> NoCount, applied_edits |-> None,
     session_id |-> Absent, user_session_id |-> Absent, pdf_bytes |-> None]

\* The edit maps a backend reports (field identifier -> value).
EditsAB == (1 :> "v") @@ (2 :> "w")
EditsB == (2 :> "x")

\* The hex string of the document the k-th event of a behaviour carries, as
\* a sequence of hex digits: each rendering differs from the one before.
Hex(k) == <<2, k, 5, 0>>

\* The identifiers the backend issues on the t-th stream.
AgentName(t) == "a" \o ToString(t)
UserName(t) == "u" \o ToString(t)

\* The complete event of the t-th stream that reports everything: a count,
\* the cumulative edits (two fields after the first turn; one, rewritten,
\* later: the backend is not bound to keep what it reported), the agent
\* session and the user session.
FullComplete(t) ==
    [Event("complete") EXCEPT !.applied_count = t,
                              !.applied_edits = Some(IF t = 1 THEN EditsAB ELSE EditsB),
                              !.session_id = AgentName(t),
                              !.user_session_id = UserName(t)]

\* The events that change more than the activity log, as the k-th event of a
\* behaviour on the t-th fill stream.
CoreEvents(t, k) ==
    { FullComplete(t),
      [Event("pdf_ready") EXCEPT !.pdf_bytes = Some(Hex(k))],
      [Event("error") EXCEPT !.error = "boom"] }

\* Every kind of event the backend may send: the core events, a complete
\* event without a count (it names the agent session and the edits), one
\* with a count only, a tool_use event without descriptions and an event of
\* a type the page does not know.
FillEvents(t, k) ==
    CoreEvents(t, k) \cup
    { [Event("complete") EXCEPT !.applied_edits = Some(EditsB),
                                !.session_id = AgentName(t)],
      [Event("complete") EXCEPT !.applied_count = 3],
      [Event("tool_use") EXCEPT !.friendly = Some(<<>>)],
      Event("ping") }

\* Friendly descriptions of tool calls, as tokens: with emphasis markup,
\* without, and of markup alone.
SetName == <<"**", "Set", "**", " name field">>
SetDate == <<"**", "Set", "**", " date field">>
CheckBox == <<"Check box">>
OnlyMarkup == <<"**", "**">>

\* The tool_use events a backend may send: without a description list, with
\* an empty one, with one description, with several.
ToolEvents ==
    { [Event("tool_use") EXCEPT !.friendly = fr] :
        fr \in {None, Some(<<>>), Some(<<SetName>>), Some(<<OnlyMarkup>>),
                Some(<<SetName, SetDate>>), Some(<<CheckBox, SetName, SetDate>>)} }

\* Messages of thrown faults (error.message; 'Unknown error' otherwise).
Faults == {"network"}

\* ------------------------------------------------------------- pure helpers
\* hexToBytes: two hex digits make one byte.
hexToBytes(hex) ==
    [i \in 1..(Len(hex) \div 2) |-> 16 * hex[2 * i - 1] + hex[2 * i]]

PreviewLen == 100

\* A cleaning that keeps the markup: C21 does not hold of it.
StripMarkupKeeps(f) == Concat(f)

\* f.replace(/\*\*/g, '') on a description given as tokens.
StripMarkup(f) == Concat(SelectSeq(f, LAMBDA tok : tok # "**"))

LogEntry(t, c, d) == [type |-> t, content |-> c, details |-> d]

\* count || 0
CountOrZero(c) == IF c = NoCount THEN 0 ELSE c

\* createLogEntry(event): None, or Some(entry).  id and timestamp, which no
\* handler reads, are left out of the entry.
createLogEntry(event) ==
    CASE event.type = "init" ->
           Some(LogEntry("status",
                IF Truthy(event.message) THEN event.message ELSE "Initializing agent...",
                Absent))
      [] event.type = "status" ->
           Some(LogEntry("status",
                IF Truthy(event.message) THEN event.message ELSE "Processing...",
                Absent))
      [] event.type = "tool_use" ->
           IF IsSome(event.friendly) /\ Len(Get(event.friendly)) > 0
           THEN LET fr == Get(event.friendly)
                    cleanedActions == [i \in 1..Len(fr) |-> StripMarkup(fr[i])]
                IN  IF Len(fr) > 1
                    THEN Some(LogEntry("tool_call",
                              "Filling " \o ToString(Len(fr)) \o " fields",
                              Join(cleanedActions, ", ")))
                    ELSE Some(LogEntry("tool_call", cleanedActions[1], Absent))
           ELSE None
      [] event.type = "user" ->
           IF IsSome(event.friendly) /\ Len(Get(event.friendly)) > 0
           THEN LET fr == Get(event.friendly)
                IN  Some(LogEntry("tool_result",
                         Join([i \in 1..Len(fr) |-> Concat(fr[i])], ", "), Absent))
           ELSE None
      [] event.type = "assistant" ->
           IF IsSome(event.text) /\ Len(Get(event.text)) > 0
           THEN LET tx == Get(event.text)
                    cut == IF Len(tx) > PreviewLen THEN PreviewLen ELSE Len(tx)
                IN  Some(LogEntry("thinking", "Agent thinking...",
                         Concat(SubSeq(tx, 1, cut))
                           \o (IF Len(tx) > PreviewLen THEN "..." ELSE "")))
           ELSE None
      [] event.type = "complete" ->
           Some(LogEntry("complete",
                "Completed - filled " \o ToString(CountOrZero(event.applied_count))
                  \o " fields", Absent))
      [] event.type = "error" ->
           Some(LogEntry("error",
                IF Truthy(event.error) THEN event.error ELSE "An error occurred",
                Absent))
      [] event.type = "pdf_ready" ->
           Some(LogEntry("complete", "Form filled successfully", Absent))
      [] OTHER -> None

\* createMessage(role, content, status) with the id it generates.
createMessage(id, role, content, status) ==
    [id |-> id, role |-> role, content |-> content, status |-> status,
     agentLog |-> <<>>]

\* ------------------------------------------------------------- state
VARIABLES
    sessionId, file, fields, messages, originalPdfBytes, filledPdfBytes,
    pdfDisplayMode, isAnalyzing, isProcessing, statusMessage, appliedEdits,
    agentSessionId, userSessionId, contextFiles, isUploadingContext,
    parseProgress,
    storage,        \* the Session Store: session id -> None or Some(snapshot)
    savePending,    \* a render changed a dependency of the save effect
    turn,           \* the handleSendMessage call in flight, if any
    request,        \* the arguments of the streamAgentFill call in flight
    opened,         \* fill streams opened so far
    inFlight,       \* fill streams opened and not yet ended
    analyses,       \* File objects whose analyzePdf call is pending
    parse,          \* the handleParseFiles call in flight, if any (with the
                    \* number of complete events it has received)
    restore,        \* the restore fetches: the userSessionId they are pending
                    \* for, if any, and what they answered last
    last,           \* the handleSendMessage call that ended last
    ops,            \* operations the user has started
    delivered       \* events the streams have delivered

state == <<sessionId, file, fields, messages, originalPdfBytes, filledPdfBytes,
           pdfDisplayMode, isAnalyzing, isProcessing, statusMessage, appliedEdits,
           agentSessionId, userSessionId, contextFiles, isUploadingContext,
           parseProgress>>
calls == <<turn, request, opened, inFlight, analyses, parse, restore>>
vars == <<state, storage, savePending, calls, last, ops, delivered>>

\* The dependency list of the save effect.
SaveDeps == <<sessionId, fields, messages, file, filledPdfBytes, isProcessing,
              userSessionId>>

\* saveSessionToStorage(session, userSessionId): the record kept under
\* session.id holds the fields, the messages, the in-progress flag and the
\* userSessionId; the documents are not kept.
Snapshot(f, m, p, u) ==
    [fields |-> f, messages |-> m, isProcessing |-> p, userSessionId |-> u]

saveSessionToStorage(store, id, f, m, p, u) ==
    [store EXCEPT ![id] = Some(Snapshot(f, m, p, u))]

\* createSession().id: a new identifier at each call.
SessionName(n) == "s" \o ToString(n)
SessionIds == {SessionName(n) : n \in 1..(MaxOps + 2)}

\* No handleSendMessage call in flight.
IdleTurn ==
    [pc |-> "idle", file |-> NoFile, filledPdfBytes |-> None, appliedEdits |-> None,
     agentSessionId |-> Absent, userSessionId |-> Absent, sessionId |-> "",
     fields |-> <<>>, messages |-> <<>>, assistantId |-> 0,
     isContinuation |-> FALSE, finalContent |-> "", appliedCount |-> 0,
     newAppliedEdits |-> None, newAgentSessionId |-> Absent,
     newUserSessionId |-> Absent, newFilledPdfBytes |-> None, events |-> <<>>]

NoRequest ==
    [file |-> NoFile, instructions |-> "", filledPdfBytes |-> None,
     isContinuation |-> FALSE, previousEdits |-> None, resumeSessionId |-> Absent,
     userSessionId |-> Absent]

\* No handleParseFiles call in flight.
IdleParse ==
    [pc |-> "idle", results |-> <<>>, currentUserSessionId |-> Absent, completes |-> 0]

\* No restore fetch is pending, none has answered.
NoRestore == [pending |-> Absent, answers |-> None]

\* No handleSendMessage call has ended since the form was selected.
NoLast == [end |-> "none", turn |-> IdleTurn]

\* The page after its first mount on an URL without a session: the init
\* effect has created the session and the save effect has stored it.
Init ==
    /\ sessionId = SessionName(1)
    /\ file = NoFile
    /\ fields = <<>>
    /\ messages = <<>>
    /\ originalPdfBytes = None
    /\ filledPdfBytes = None
    /\ pdfDisplayMode = "original"
    /\ isAnalyzing = FALSE
    /\ isProcessing = FALSE
    /\ statusMessage = ""
    /\ appliedEdits = None
    /\ agentSessionId = Absent
    /\ userSessionId = Absent
    /\ contextFiles = <<>>
    /\ isUploadingContext = FALSE
    /\ parseProgress = None
    /\ storage = [s \in SessionIds |->
                    IF s = SessionName(1) THEN Some(Snapshot(<<>>, <<>>, FALSE, Absent))
                                          ELSE None]
    /\ savePending = FALSE
    /\ turn = IdleTurn
    /\ request = NoRequest
    /\ opened = 0
    /\ inFlight = 0
    /\ analyses = {}
    /\ parse = IdleParse
    /\ restore = NoRestore
    /\ last = NoLast
    /\ ops = 0
    /\ delivered = 0

\* The id createMessage generates: ids are unique among the messages of the
\* page, and the list only grows, so the position of the new message is one.
NewId(msgs) == Len(msgs) + 1

\* ------------------------------------------------------------- a fill turn
\* What the user may have typed into the chat input, trimmed.
Inputs == {"", "fill it"}

HasMessage(msgs, id) == \E i \in 1..Len(msgs) : msgs[i].id = id

\* A classification by either of the two: C5 does not hold of it.
IsContinuationEither(agent, filled) == Truthy(agent) \/ IsSome(filled)

\* Boolean(agentSessionId && filledPdfBytes)
IsContinuation(agent, filled) == Truthy(agent) /\ IsSome(filled)

\* The arguments handleSendMessage gives to streamAgentFill.
StreamArgs(content, isContinuation) ==
    [file |-> file, instructions |-> content,
     filledPdfBytes |-> IF isContinuation THEN filledPdfBytes ELSE None,
     isContinuation |-> isContinuation,
     previousEdits |-> appliedEdits,
     resumeSessionId |-> agentSessionId,
     userSessionId |-> userSessionId]

\* handleSendMessage(content), up to the first await of the stream.
handleSendMessage(content) ==
    IF file = NoFile
    THEN /\ messages' = Append(messages, createMessage(NewId(messages), "system",
                                   "Please upload a PDF first", "complete"))
         /\ UNCHANGED <<sessionId, file, fields, originalPdfBytes, filledPdfBytes,
                        pdfDisplayMode, isAnalyzing, isProcessing, statusMessage,
                        appliedEdits, agentSessionId, userSessionId, contextFiles,
                        isUploadingContext, parseProgress, storage, calls>>
         /\ UNCHANGED last
    ELSE LET userMessage == createMessage(NewId(messages), "user", content, "complete")
             assistantMessage ==
                 createMessage(NewId(messages) + 1, "assistant", "", "streaming")
             isContinuation == IsContinuation(agentSessionId, filledPdfBytes)
         IN  /\ messages' = messages \o <<userMessage, assistantMessage>>
             /\ isProcessing' = TRUE
             /\ statusMessage' = "Starting agent..."
             /\ request' = StreamArgs(content, isContinuation)
             /\ opened' = opened + 1
             /\ inFlight' = inFlight + 1
             /\ turn' = [IdleTurn EXCEPT
                           !.pc = "streaming", !.file = file,
                           !.filledPdfBytes = filledPdfBytes,
                           !.appliedEdits = appliedEdits,
                           !.agentSessionId = agentSessionId,
                           !.userSessionId = userSessionId,
                           !.sessionId = sessionId, !.fields = fields,
                           !.messages = messages,
                           !.assistantId = assistantMessage.id,
                           !.isContinuation = isContinuation]
             /\ UNCHANGED last
             /\ UNCHANGED <<sessionId, file, fields, originalPdfBytes, filledPdfBytes,
                            pdfDisplayMode, isAnalyzing, appliedEdits, agentSessionId,
                            userSessionId, contextFiles, isUploadingContext,
                            parseProgress, storage, analyses, parse, restore>>

\* A panel that is disabled only without fields: C29 does not hold of it.
ChatDisabledNoFields == Len(fields) = 0

\* A panel that is disabled only without a file: C25 does not hold of it.
ChatDisabledNoFile == file = NoFile

\* The disabled prop Home gives to ChatPanel.
ChatDisabled == file = NoFile \/ Len(fields) = 0

\* The guard without its test of isProcessing: C1 does not hold of it.
SubmitAllowedWhileProcessing(input) == input # "" /\ ~ChatDisabled

\* The guard of ChatPanel.handleSubmit.
SubmitAllowed(input) == input # "" /\ ~isProcessing /\ ~ChatDisabled

\* ChatPanel.handleSubmit: the submission is passed on only when the input is
\* not blank, no turn is in flight and the panel is not disabled.
handleSubmit(input) ==
    IF SubmitAllowed(input)
    THEN /\ ops < MaxOps
         /\ ops' = ops + 1
         /\ handleSendMessage(input)
    ELSE UNCHANGED <<state, storage, calls, last, ops>>

Submit ==
    /\ \E input \in Inputs : handleSubmit(input)
    /\ UNCHANGED delivered

\* A fold that keeps the new entry alone: C23 does not hold of it.
AppendLogOnly(m, logEntry) ==
    [m EXCEPT !.agentLog = IF IsSome(logEntry) THEN <<Get(logEntry)>> ELSE m.agentLog]

\* A fold that puts the new entry first: C4 does not hold of it.
PrependLog(m, logEntry) ==
    [m EXCEPT !.agentLog = IF IsSome(logEntry) THEN <<Get(logEntry)>> \o m.agentLog
                                               ELSE m.agentLog]

\* updatedLog: the log of the placeholder with the entry of an event, if any.
AppendLog(m, logEntry) ==
    [m EXCEPT !.agentLog = IF IsSome(logEntry) THEN Append(m.agentLog, Get(logEntry))
                                               ELSE m.agentLog]

\* A total that is the count of the turn: C6 does not hold of it.
TotalEditsCountOnly(newAppliedEdits, appliedCount) == appliedCount

\* totalEdits of a complete event.
TotalEdits(newAppliedEdits, appliedCount) ==
    IF IsSome(newAppliedEdits) THEN KeyCount(Get(newAppliedEdits)) ELSE appliedCount

\* A test that never finds a document in an event: C20 does not hold of it.
HasPdfNever(event) == FALSE

\* event.type === 'pdf_ready' && event.pdf_bytes: a non-empty hex string.
HasPdf(event) ==
    event.type = "pdf_ready" /\ IsSome(event.pdf_bytes) /\ Len(Get(event.pdf_bytes)) > 0

\* The fold of one event into the placeholder and the turn's accumulators
\* (the body of the for-await loop).
FoldEvent(event) ==
    LET logEntry == createLogEntry(event)
        Fold(m) == AppendLog(m, logEntry)
        isComplete == event.type = "complete"
        appliedCount == IF isComplete THEN CountOrZero(event.applied_count)
                                      ELSE turn.appliedCount
        newAppliedEdits == IF isComplete /\ IsSome(event.applied_edits)
                           THEN event.applied_edits ELSE turn.newAppliedEdits
        totalEdits == TotalEdits(newAppliedEdits, appliedCount)
        completeContent ==
            IF turn.isContinuation
            THEN "Updated " \o ToString(appliedCount) \o " fields. Total: "
                   \o ToString(totalEdits) \o " fields filled."
            ELSE "Successfully filled " \o ToString(appliedCount) \o " form fields."
        hasPdf == HasPdf(event)
        bytes == Some(hexToBytes(Get(event.pdf_bytes)))
    IN  /\ messages' = [i \in 1..Len(messages) |->
                           IF messages[i].id = turn.assistantId THEN Fold(messages[i])
                                                                ELSE messages[i]]
        /\ statusMessage' = IF IsSome(logEntry) /\ HasMessage(messages, turn.assistantId)
                            THEN Get(logEntry).content ELSE statusMessage
        /\ filledPdfBytes' = IF hasPdf THEN bytes ELSE filledPdfBytes
        /\ pdfDisplayMode' = IF hasPdf THEN "filled" ELSE pdfDisplayMode
        /\ turn' = [turn EXCEPT
              !.appliedCount = appliedCount,
              !.newAppliedEdits = newAppliedEdits,
              !.newAgentSessionId =
                  IF isComplete /\ Truthy(event.session_id)
                  THEN event.session_id ELSE @,
              !.newUserSessionId =
                  IF isComplete /\ Truthy(event.user_session_id)
                  THEN event.user_session_id ELSE @,
              !.newFilledPdfBytes = IF hasPdf THEN bytes ELSE @,
              !.finalContent =
                  IF event.type = "error"
                  THEN (IF Truthy(event.error) THEN event.error ELSE "An error occurred")
                  ELSE IF isComplete THEN completeContent ELSE @,
              !.events = Append(@, event)]
        /\ UNCHANGED <<sessionId, file, fields, originalPdfBytes, isAnalyzing,
                       isProcessing, appliedEdits, agentSessionId, userSessionId,
                       contextFiles, isUploadingContext, parseProgress, storage,
                       request, opened, inFlight, analyses, parse, restore, last, ops>>

\* The stream yields its next event: a core event.
TurnEvent ==
    /\ turn.pc = "streaming"
    /\ delivered < MaxEvents
    /\ delivered' = delivered + 1
    /\ \E event \in CoreEvents(opened, delivered + 1) : FoldEvent(event)

\* The stream yields its next event: an event of any kind.
TurnEventAny ==
    /\ turn.pc = "streaming"
    /\ delivered < MaxEvents
    /\ delivered' = delivered + 1
    /\ \E event \in FillEvents(opened, delivered + 1) : FoldEvent(event)

\* The stream yields its next event: a tool_use event.
TurnEventTool ==
    /\ turn.pc = "streaming"
    /\ delivered < MaxEvents
    /\ delivered' = delivered + 1
    /\ \E event \in ToolEvents : FoldEvent(event)

\* The events of a stream that gave a log entry.
Logged(events) == SelectSeq(events, LAMBDA e : IsSome(createLogEntry(e)))

\* statusMessage after finally.  setStatusMessage(logEntry.content) is called
\* inside the updater given to setMessages, so it runs when React applies the
\* updater: at once, or in the next render.  When the stream ends before the
\* render that applies the updater of its last logged event, the '' of
\* finally is queued first and the updater's text is set after it.
StatusAfter(t) ==
    {""} \cup (IF Logged(t.events) = <<>> THEN {}
               ELSE {Get(createLogEntry(Logged(t.events)[Len(Logged(t.events))])).content})

\* finally { setIsProcessing(false); setStatusMessage('') }; the call and
\* its stream are over.
TurnFinally ==
    /\ isProcessing' = FALSE
    /\ statusMessage' \in StatusAfter(turn)
    /\ turn' = IdleTurn
    /\ request' = NoRequest
    /\ inFlight' = inFlight - 1

\* A content without the fallback text: C30 does not hold of it.
FinalContentOrEmpty(t) == t.finalContent

\* The content of the placeholder after a normal end.
FinalContent(t) ==
    IF t.finalContent # "" THEN t.finalContent
    ELSE "Filled " \o ToString(t.appliedCount) \o " fields."

\* A finalization that sets the content and leaves the status: C3 does not
\* hold of it.
MarkCompleteKeepsStatus(m) == [m EXCEPT !.content = FinalContent(turn)]

\* The placeholder after a normal end.
MarkComplete(m) == [m EXCEPT !.status = "complete", !.content = FinalContent(turn)]

\* The placeholder after a thrown fault.
MarkError(m, errorMessage) ==
    [m EXCEPT !.status = "error",
              !.content = "Error: " \o errorMessage,
              !.agentLog = Append(m.agentLog, LogEntry("error", errorMessage, Absent))]

\* No write at once: C10 does not hold of it.
ImmediateSaveSkipped(store) == store

\* The snapshot written at once when the backend gave a user session: the
\* fields and the messages are those of the render that created the handler.
ImmediateSave(store) ==
    saveSessionToStorage(store, turn.sessionId, turn.fields, turn.messages, FALSE,
                         turn.newUserSessionId)

\* Edits that are never taken over: C7 does not hold of it.
AdoptEditsKeepOld == appliedEdits

\* The identifiers and the edits taken over after the loop.
AdoptEdits == IF IsSome(turn.newAppliedEdits) THEN turn.newAppliedEdits ELSE appliedEdits
AdoptAgent ==
    IF Truthy(turn.newAgentSessionId) THEN turn.newAgentSessionId ELSE agentSessionId
\* A user session that takes whatever the turn collected, nothing included:
\* C11 does not hold of it.
AdoptUserOrNothing == turn.newUserSessionId

AdoptUser ==
    IF Truthy(turn.newUserSessionId) THEN turn.newUserSessionId ELSE userSessionId

\* The stream ends normally: the code after the loop, and finally.
TurnEnd ==
    /\ turn.pc = "streaming"
    /\ appliedEdits' = AdoptEdits
    /\ agentSessionId' = AdoptAgent
    /\ userSessionId' = AdoptUser
    /\ storage' = IF Truthy(turn.newUserSessionId) THEN ImmediateSave(storage)
                                                   ELSE storage
    /\ messages' = [i \in 1..Len(messages) |->
                       IF messages[i].id = turn.assistantId THEN MarkComplete(messages[i])
                                                            ELSE messages[i]]
    /\ TurnFinally
    /\ last' = [end |-> "normal", turn |-> turn]
    /\ UNCHANGED <<sessionId, file, fields, originalPdfBytes, filledPdfBytes,
                   pdfDisplayMode, isAnalyzing, contextFiles, isUploadingContext,
                   parseProgress, opened, analyses, parse, restore, ops, delivered>>

\* The stream, or the fold of an event, throws: catch, and finally.
TurnThrow ==
    /\ turn.pc = "streaming"
    /\ \E errorMessage \in Faults :
         messages' = [i \in 1..Len(messages) |->
                        IF messages[i].id = turn.assistantId
                        THEN MarkError(messages[i], errorMessage) ELSE messages[i]]
    /\ TurnFinally
    /\ last' = [end |-> "thrown", turn |-> turn]
    /\ UNCHANGED <<sessionId, file, fields, originalPdfBytes, filledPdfBytes,
                   pdfDisplayMode, isAnalyzing, appliedEdits, agentSessionId,
                   userSessionId, contextFiles, isUploadingContext, parseProgress,
                   storage, opened, analyses, parse, restore, ops, delivered>>

\* ------------------------------------------------------------- file selection
\* What analyzePdf may answer: the fields and the field count.
AnalyzeResults ==
    { [fields |-> <<>>, field_count |-> 0],
      [fields |-> <<"name", "date">>, field_count |-> 2] }

\* A reset that gives the session a new identifier: C13 does not hold of it.
ResetSessionMinting ==
    /\ sessionId' = SessionName(ops + 2)
    /\ file' = NoFile
    /\ fields' = <<>>
    /\ originalPdfBytes' = None
    /\ filledPdfBytes' = None
    /\ pdfDisplayMode' = "original"
    /\ appliedEdits' = None
    /\ agentSessionId' = Absent
    /\ userSessionId' = Absent
    /\ contextFiles' = <<>>
    /\ last' = NoLast
    /\ UNCHANGED <<messages, isAnalyzing, isProcessing, statusMessage,
                   isUploadingContext, parseProgress, storage, calls, delivered>>

\* handleFileSelect(null)
ResetSession ==
    /\ file' = NoFile
    /\ fields' = <<>>
    /\ originalPdfBytes' = None
    /\ filledPdfBytes' = None
    /\ pdfDisplayMode' = "original"
    /\ appliedEdits' = None
    /\ agentSessionId' = Absent
    /\ userSessionId' = Absent
    /\ contextFiles' = <<>>
    /\ last' = NoLast
    /\ UNCHANGED <<sessionId, messages, isAnalyzing, isProcessing, statusMessage,
                   isUploadingContext, parseProgress, storage, calls, delivered>>

\* handleFileSelect(selectedFile), up to the await of analyzePdf.
SelectFile(selectedFile) ==
    /\ file' = selectedFile
    /\ originalPdfBytes' = None
    /\ filledPdfBytes' = None
    /\ pdfDisplayMode' = "original"
    /\ appliedEdits' = None
    /\ agentSessionId' = Absent
    /\ userSessionId' = Absent
    /\ contextFiles' = <<>>
    /\ isAnalyzing' = TRUE
    /\ analyses' = analyses \cup {selectedFile}
    /\ last' = NoLast
    /\ UNCHANGED <<sessionId, fields, messages, isProcessing, statusMessage,
                   isUploadingContext, parseProgress, storage, turn, request, opened,
                   inFlight, parse, restore, delivered>>

\* LeftPanel.handleReset behind the New Form button, shown when a file is
\* selected.
handleReset ==
    /\ file # NoFile
    /\ ~isProcessing
    /\ ops < MaxOps
    /\ ops' = ops + 1
    /\ ResetSession

\* PdfUpload, shown when there is neither a file nor a restored document,
\* and disabled while a turn is in flight.  Each selection is a new File.
Upload ==
    /\ file = NoFile /\ originalPdfBytes = None /\ filledPdfBytes = None
    /\ ~isProcessing
    /\ ops < MaxOps
    /\ ops' = ops + 1
    /\ SelectFile(ops + 1)

\* analyzePdf answers: the rest of the try block, and finally.
AnalysisDone ==
    \E f \in analyses, result \in AnalyzeResults :
      /\ analyses' = analyses \ {f}
      /\ fields' = result.fields
      /\ messages' = Append(messages, createMessage(NewId(messages), "system",
             IF result.field_count > 0
             THEN "Detected " \o ToString(result.field_count)
                    \o " fillable fields in the PDF"
             ELSE "No fillable form fields detected. Make sure this is a PDF with AcroForm fields.",
             "complete"))
      /\ isAnalyzing' = FALSE
      /\ UNCHANGED last
      /\ UNCHANGED <<sessionId, file, originalPdfBytes, filledPdfBytes, pdfDisplayMode,
                     isProcessing, statusMessage, appliedEdits, agentSessionId,
                     userSessionId, contextFiles, isUploadingContext, parseProgress,
                     storage, turn, request, opened, inFlight, parse, restore, ops,
                     delivered>>

\* analyzePdf throws: catch, and finally.
AnalysisFail ==
    \E f \in analyses, errorMessage \in Faults :
      /\ analyses' = analyses \ {f}
      /\ messages' = Append(messages, createMessage(NewId(messages), "system",
             "Error analyzing PDF: " \o errorMessage, "complete"))
      /\ isAnalyzing' = FALSE
      /\ UNCHANGED last
      /\ UNCHANGED <<sessionId, file, fields, originalPdfBytes, filledPdfBytes,
                     pdfDisplayMode, isProcessing, statusMessage, appliedEdits,
                     agentSessionId, userSessionId, contextFiles, isUploadingContext,
                     parseProgress, storage, turn, request, opened, inFlight, parse,
                     restore, ops, delivered>>

\* A toggle that is offered without a filled document: C27 does not hold of
\* it.
ToggleModeUnguarded ==
    /\ (file # NoFile \/ IsSome(originalPdfBytes))
    /\ ~isAnalyzing
    /\ ops < MaxOps
    /\ ops' = ops + 1
    /\ \E mode \in {"original", "filled"} : pdfDisplayMode' = mode
    /\ UNCHANGED last
    /\ UNCHANGED <<sessionId, file, fields, messages, originalPdfBytes, filledPdfBytes,
                   isAnalyzing, isProcessing, statusMessage, appliedEdits,
                   agentSessionId, userSessionId, contextFiles, isUploadingContext,
                   parseProgress, storage, calls, delivered>>


\* PdfViewer's Original / Filled buttons, shown when the viewer is shown
\* and has both documents.
ToggleMode ==
    /\ (file # NoFile \/ IsSome(originalPdfBytes)) /\ IsSome(filledPdfBytes)
    /\ ~isAnalyzing
    /\ ops < MaxOps
    /\ ops' = ops + 1
    /\ \E mode \in {"original", "filled"} : pdfDisplayMode' = mode
    /\ UNCHANGED last
    /\ UNCHANGED <<sessionId, file, fields, messages, originalPdfBytes, filledPdfBytes,
                   isAnalyzing, isProcessing, statusMessage, appliedEdits,
                   agentSessionId, userSessionId, contextFiles, isUploadingContext,
                   parseProgress, storage, calls, delivered>>

\* ------------------------------------------------------------- context files
\* The events of the parse stream.
ParseEvents ==
    { [type |-> "progress", current |-> 1, total |-> 2, filename |-> "a.txt",
       status |-> "parsing", error |-> Absent, results |-> None],
      [type |-> "complete", current |-> 0, total |-> 0, filename |-> Absent,
       status |-> Absent, error |-> Absent,
       results |-> Some(<< [filename |-> "a.txt", content |-> "notes", parsed |-> TRUE,
                            error |-> Absent],
                           [filename |-> "b.pdf", content |-> Absent, parsed |-> FALSE,
                            error |-> "unreadable"],
                           [filename |-> "c.md", content |-> "draft", parsed |-> TRUE,
                            error |-> "cut short"] >>)] }

\* generateId() + '-' + Date.now(): an identifier no earlier call gave.
MintId(n) == "c" \o ToString(n)

\* A parse that mints an identifier whether or not one exists: C22 does not
\* hold of it.
CurrentUserSessionIdMinted == MintId(ops + 1)

\* currentUserSessionId of handleParseFiles: the session's, or a new one.
CurrentUserSessionId ==
    IF Truthy(userSessionId) THEN userSessionId ELSE MintId(ops + 1)

\* handleParseFiles(files, parseMode), up to the first await of the stream;
\* ContextFilesUpload.handleUpload passes the call on when no parse is running.
ParseStart ==
    /\ ~isUploadingContext
    /\ ops < MaxOps
    /\ ops' = ops + 1
    /\ isUploadingContext' = TRUE
    /\ parseProgress' = None
    /\ userSessionId' = CurrentUserSessionId
    /\ parse' = [pc |-> "streaming", results |-> <<>>,
                 currentUserSessionId |-> CurrentUserSessionId, completes |-> 0]
    /\ UNCHANGED last
    /\ UNCHANGED <<sessionId, file, fields, messages, originalPdfBytes, filledPdfBytes,
                   pdfDisplayMode, isAnalyzing, isProcessing, statusMessage,
                   appliedEdits, agentSessionId, contextFiles, storage, turn, request,
                   opened, inFlight, analyses, restore, delivered>>

\* A filter that keeps every result with content, errors or not: C24 does
\* not hold of it.
GoodResultsWithErrors(results) ==
    LET good == SelectSeq(results, LAMBDA r : Truthy(r.content))
    IN  [i \in 1..Len(good) |-> [filename |-> good[i].filename,
                                 content |-> good[i].content,
                                 was_parsed |-> good[i].parsed]]

\* The results of a complete event that have content and no error.
GoodResults(results) ==
    LET good == SelectSeq(results, LAMBDA r : Truthy(r.content) /\ ~Truthy(r.error))
    IN  [i \in 1..Len(good) |-> [filename |-> good[i].filename,
                                 content |-> good[i].content,
                                 was_parsed |-> good[i].parsed]]

\* The parse stream yields its next event.
ParseEvent ==
    /\ parse.pc = "streaming"
    /\ delivered < MaxEvents
    /\ delivered' = delivered + 1
    /\ \E event \in ParseEvents :
         /\ parseProgress' =
              IF event.type = "progress" /\ Truthy(event.filename) /\ Truthy(event.status)
              THEN Some([current |-> event.current, total |-> event.total,
                         filename |-> event.filename, status |-> event.status,
                         error |-> event.error])
              ELSE parseProgress
         /\ parse' = IF event.type = "complete" /\ IsSome(event.results)
                     THEN [parse EXCEPT !.results = @ \o GoodResults(Get(event.results)),
                                        !.completes = @ + 1]
                     ELSE parse
    /\ UNCHANGED last
    /\ UNCHANGED <<sessionId, file, fields, messages, originalPdfBytes, filledPdfBytes,
                   pdfDisplayMode, isAnalyzing, isProcessing, statusMessage,
                   appliedEdits, agentSessionId, userSessionId, contextFiles,
                   isUploadingContext, storage, turn, request, opened, inFlight,
                   analyses, restore, ops>>

\* The parse stream ends normally: the files are added, and finally.
ParseEnd ==
    /\ parse.pc = "streaming"
    /\ contextFiles' = contextFiles \o parse.results
    /\ isUploadingContext' = FALSE
    /\ parseProgress' = None
    /\ parse' = IdleParse
    /\ UNCHANGED last
    /\ UNCHANGED <<sessionId, file, fields, messages, originalPdfBytes, filledPdfBytes,
                   pdfDisplayMode, isAnalyzing, isProcessing, statusMessage,
                   appliedEdits, agentSessionId, userSessionId, storage, turn, request,
                   opened, inFlight, analyses, restore, ops, delivered>>

\* The parse stream throws: catch, and finally.
ParseThrow ==
    /\ parse.pc = "streaming"
    /\ \E errorMessage \in Faults :
         messages' = Append(messages, createMessage(NewId(messages), "system",
                         "Error parsing files: " \o errorMessage, "complete"))
    /\ isUploadingContext' = FALSE
    /\ parseProgress' = None
    /\ parse' = IdleParse
    /\ UNCHANGED last
    /\ UNCHANGED <<sessionId, file, fields, originalPdfBytes, filledPdfBytes,
                   pdfDisplayMode, isAnalyzing, isProcessing, statusMessage,
                   appliedEdits, agentSessionId, userSessionId, contextFiles, storage,
                   turn, request, opened, inFlight, analyses, restore, ops, delivered>>

\* ------------------------------------------------------------- persistence
\* The save effect of Home, run after a render that changed a dependency.
SaveEffect ==
    /\ savePending
    /\ savePending' = FALSE
    /\ storage' = IF sessionId # ""
                  THEN saveSessionToStorage(storage, sessionId, fields, messages,
                                            isProcessing, userSessionId)
                  ELSE storage
    /\ UNCHANGED <<state, calls, last, ops, delivered>>

\* What the backend holds for a user session.
BackendPdf == <<37, 80>>
BackendOriginal == <<37, 79>>
BackendContext == << [filename |-> "a.txt", content |-> "notes", was_parsed |-> TRUE] >>

\* The page is closed and opened again on its URL: every call in flight is
\* gone with the old page, the state is the initial one, and the init effect
\* restores the stored session or, when there is none to load, creates one.
Reload ==
    /\ ops < MaxOps
    /\ ops' = ops + 1
    /\ \E stored \in {storage[sessionId], None} :
         /\ IF IsSome(stored)
            THEN /\ sessionId' = sessionId
                 /\ fields' = Get(stored).fields
                 /\ messages' = Get(stored).messages
                 /\ userSessionId' = IF Truthy(Get(stored).userSessionId)
                                     THEN Get(stored).userSessionId ELSE Absent
                 /\ restore' = [NoRestore EXCEPT !.pending =
                                  IF Truthy(Get(stored).userSessionId)
                                  THEN Get(stored).userSessionId ELSE Absent]
            ELSE /\ sessionId' = SessionName(ops + 2)
                 /\ fields' = <<>>
                 /\ messages' = <<>>
                 /\ userSessionId' = Absent
                 /\ restore' = NoRestore
    /\ file' = NoFile
    /\ originalPdfBytes' = None
    /\ filledPdfBytes' = None
    /\ pdfDisplayMode' = "original"
    /\ isAnalyzing' = FALSE
    /\ isProcessing' = FALSE
    /\ statusMessage' = ""
    /\ appliedEdits' = None
    /\ agentSessionId' = Absent
    /\ contextFiles' = <<>>
    /\ isUploadingContext' = FALSE
    /\ parseProgress' = None
    /\ turn' = IdleTurn
    /\ request' = NoRequest
    /\ inFlight' = 0
    /\ analyses' = {}
    /\ parse' = IdleParse
    /\ last' = NoLast
    /\ savePending' = TRUE
    /\ UNCHANGED <<storage, opened, delivered>>

\* A callback that applies the answers only when all three fetches gave
\* one: C15 does not hold of it.
ApplyRestoreAllOrNothing(filledBytes, originalBytes, contextFilesData) ==
    LET all == IsSome(filledBytes) /\ IsSome(originalBytes) /\ IsSome(contextFilesData)
    IN  /\ filledPdfBytes' = IF all THEN filledBytes ELSE filledPdfBytes
        /\ pdfDisplayMode' = IF all THEN "filled" ELSE pdfDisplayMode
        /\ originalPdfBytes' = IF all THEN originalBytes ELSE originalPdfBytes
        /\ contextFiles' = IF all THEN Get(contextFilesData) ELSE contextFiles

\* The callback given to Promise.all(...).then: each answer that is there
\* is applied.
ApplyRestore(filledBytes, originalBytes, contextFilesData) ==
    /\ filledPdfBytes' = IF IsSome(filledBytes) THEN filledBytes ELSE filledPdfBytes
    /\ pdfDisplayMode' = IF IsSome(filledBytes) THEN "filled" ELSE pdfDisplayMode
    /\ originalPdfBytes' = IF IsSome(originalBytes) THEN originalBytes
                                                    ELSE originalPdfBytes
    /\ contextFiles' = IF IsSome(contextFilesData) THEN Get(contextFilesData)
                                                   ELSE contextFiles

\* The three restore fetches have answered, each with what the backend
\* holds or with nothing.
RestoreFetched ==
    /\ Truthy(restore.pending)
    /\ \E filledBytes \in {None, Some(BackendPdf)},
          originalBytes \in {None, Some(BackendOriginal)},
          contextFilesData \in {None, Some(BackendContext)} :
         /\ restore' = [pending |-> Absent,
                        answers |-> Some([filled |-> filledBytes,
                                          original |-> originalBytes,
                                          context |-> contextFilesData])]
         /\ ApplyRestore(filledBytes, originalBytes, contextFilesData)
    /\ UNCHANGED last
    /\ UNCHANGED <<sessionId, file, fields, messages, isAnalyzing, isProcessing,
                   statusMessage, appliedEdits, agentSessionId, userSessionId,
                   isUploadingContext, parseProgress, storage, turn, request, opened,
                   inFlight, analyses, parse, ops, delivered>>

\* A handler runs after the effects of the previous render, and its render
\* schedules the save effect when a dependency changed.
Handler(A) ==
    /\ ~savePending
    /\ A
    /\ savePending' = (SaveDeps' # SaveDeps)

Next ==
    \/ Handler(Submit)
    \/ Handler(TurnEvent)
    \/ Handler(TurnEnd)
    \/ Handler(TurnThrow)
    \/ Handler(handleReset)
    \/ Handler(Upload)
    \/ Handler(AnalysisDone)
    \/ Handler(AnalysisFail)
    \/ Handler(ToggleMode)
    \/ Handler(ParseStart)
    \/ Handler(ParseEvent)
    \/ Handler(ParseEnd)
    \/ Handler(ParseThrow)
    \/ Handler(RestoreFetched)
    \/ SaveEffect
    \/ Reload

Spec == Init /\ [][Next]_vars

\* The chat alone: one form, its fill turns, and every kind of event.
NextTurn ==
    \/ Handler(Upload)
    \/ Handler(AnalysisDone)
    \/ Handler(Submit)
    \/ Handler(TurnEventAny)
    \/ Handler(TurnEnd)
    \/ Handler(TurnThrow)
    \/ SaveEffect

SpecTurn == Init /\ [][NextTurn]_vars

\* The activity log alone: one form, its fill turns, streams of tool_use
\* events.
NextLog ==
    \/ Handler(Upload)
    \/ Handler(AnalysisDone)
    \/ Handler(Submit)
    \/ Handler(TurnEventTool)
    \/ Handler(TurnEnd)
    \/ Handler(TurnThrow)
    \/ SaveEffect

SpecLog == Init /\ [][NextLog]_vars

\* ------------------------------------------------------------- properties
\* The message with a given id.
MessageOf(id) == messages[CHOOSE i \in 1..Len(messages) : messages[i].id = id]

\* The placeholder of the turn that ended last, and the events it received.
Finalized == MessageOf(last.turn.assistantId)
Received == last.turn.events

\* The events of a given type in a sequence of events.
OfType(events, ty) == SelectSeq(events, LAMBDA e : e.type = ty)

\* The turn that ended last received exactly one complete event and no
\* error event.
OneComplete == Len(OfType(Received, "complete")) = 1 /\ OfType(Received, "error") = <<>>
TheComplete == OfType(Received, "complete")[1]

\* What ChatPanel shows as the status indicator: the text, while a turn is
\* in flight.
StatusIndicator == IF isProcessing /\ statusMessage # "" THEN statusMessage ELSE ""

\* The identifiers a snapshot of the Session Store holds.
StoredIds(stored) == IF IsSome(stored) THEN {Get(stored).userSessionId} ELSE {}

\* C1: at most one fill stream is in flight at any time, and a submission
\* from the chat panel while isProcessing is true opens no stream and appends
\* no message.
C1_OneTurnInFlight ==
    /\ [](inFlight <= 1)
    /\ [][isProcessing /\ Submit => UNCHANGED <<messages, opened, inFlight>>]_vars

\* A turn is in flight and the chat panel is not disabled otherwise: a
\* submission is rejected because of isProcessing alone.
C1_Witness == isProcessing /\ inFlight = 1 /\ ~ChatDisabled /\ ops < MaxOps

\* C2, as the specification states it: a turn whose stream delivered an error
\* event is finalized with status error, however the stream ends.
C2_ErrorDominates ==
    last.end # "none" /\ OfType(Received, "error") # <<>> => Finalized.status = "error"

\* C3: while the page lives, the status of a message changes only when the
\* stream of its turn ends, from streaming to complete or error; the end of a
\* stream finalizes the placeholder of its turn, and leaves isProcessing false
\* and the status indicator empty.
C3_FinalizedOnce ==
    [][ ( (TurnEnd \/ TurnThrow) =>
            ( /\ MessageOf(turn.assistantId).status = "streaming"
              /\ \A i \in 1..Len(messages') :
                   messages'[i].id = turn.assistantId =>
                     messages'[i].status \in {"complete", "error"}
              /\ ~isProcessing'
              /\ StatusIndicator' = "" ) )
        /\
        ( ~Reload =>
            ( \A i \in 1..Len(messages) :
                (messages'[i].status # messages[i].status) =>
                  ( /\ (TurnEnd \/ TurnThrow)
                    /\ messages[i].id = turn.assistantId
                    /\ messages[i].status = "streaming"
                    /\ messages'[i].status \in {"complete", "error"} ) ) ) ]_vars

\* A turn has ended normally while the updater of its last logged event was
\* still to run: the placeholder is complete, no turn is in flight, and
\* statusMessage holds a text the indicator does not show.
C3_Witness ==
    /\ last.end = "normal" /\ Finalized.status = "complete"
    /\ ~isProcessing /\ statusMessage # "" /\ StatusIndicator = ""

\* C4: a turn that ended normally after exactly one complete event and no
\* error event has a placeholder of status complete whose log holds, in
\* arrival order, the entry of each event createLogEntry gives an entry for,
\* and nothing else.
C4_LogOfEvents ==
    last.end = "normal" /\ OneComplete =>
      /\ Finalized.status = "complete"
      /\ Len(Finalized.agentLog) = Len(Logged(Received))
      /\ Finalized.agentLog =
           [i \in 1..Len(Logged(Received)) |-> Get(createLogEntry(Logged(Received)[i]))]

\* Three events were received, in an order other than that of their types'
\* entries alone: one gave no entry, two gave different entries.
C4_Witness ==
    /\ last.end = "normal" /\ OneComplete
    /\ Len(Received) = 3 /\ Len(Finalized.agentLog) = 2
    /\ Finalized.agentLog[1] # Finalized.agentLog[2]

\* C5: a turn in flight was classified as a continuation exactly when, at its
\* start, agentSessionId was set and a filled PDF was there; the stream was
\* opened with that classification.
C5_Continuation ==
    turn.pc = "streaming" =>
      /\ turn.isContinuation <=>
           (turn.agentSessionId \notin {Absent, ""} /\ turn.filledPdfBytes # None)
      /\ request.isContinuation = turn.isContinuation

\* A turn started with an agent session and no filled PDF, and is fresh.
C5_Witness ==
    /\ turn.pc = "streaming" /\ turn.agentSessionId # Absent
    /\ turn.filledPdfBytes = None /\ ~turn.isContinuation

\* C6: a turn that ended normally after exactly one complete event and no
\* error event has the content "Successfully filled n form fields." when it
\* was fresh and "Updated n fields. Total: k fields filled." when it was a
\* continuation: n is the applied_count of the event, 0 when it has none, and
\* k is the number of keys of its applied_edits, n when it has none.
C6_FinalContent ==
    last.end = "normal" /\ OneComplete =>
      LET n == IF TheComplete.applied_count = NoCount THEN 0
                                                      ELSE TheComplete.applied_count
          k == IF TheComplete.applied_edits # None
               THEN Cardinality(DOMAIN TheComplete.applied_edits[1]) ELSE n
      IN  Finalized.content =
            IF last.turn.isContinuation
            THEN "Updated " \o ToString(n) \o " fields. Total: " \o ToString(k)
                   \o " fields filled."
            ELSE "Successfully filled " \o ToString(n) \o " form fields."

\* A continuation ended after a complete event of count 2 whose edits have
\* one key.
C6_Witness ==
    /\ last.end = "normal" /\ OneComplete /\ last.turn.isContinuation
    /\ Finalized.content = "Updated 2 fields. Total: 1 fields filled."

\* C7: when the turn before the one in flight ended normally after exactly
\* one complete event, which named an agent session and the edits, and a
\* pdf_ready event with bytes, the turn in flight was opened as a
\* continuation, with those edits as previousEdits and that agent session as
\* resumeSessionId.
C7_SecondTurn ==
    /\ turn.pc = "streaming" /\ last.end = "normal"
    /\ Len(OfType(Received, "complete")) = 1
    /\ OfType(Received, "complete")[1].session_id \notin {Absent, ""}
    /\ OfType(Received, "complete")[1].applied_edits # None
    /\ \E i \in 1..Len(Received) :
         Received[i].type = "pdf_ready" /\ Received[i].pdf_bytes \notin {None, <<<<>>>>}
    => /\ request.isContinuation
       /\ request.previousEdits = OfType(Received, "complete")[1].applied_edits
       /\ request.resumeSessionId = OfType(Received, "complete")[1].session_id

\* The second turn of a session is in flight, opened with the edits and the
\* agent session of the first.
C7_Witness ==
    /\ turn.pc = "streaming" /\ last.end = "normal" /\ opened = 2
    /\ request.isContinuation
    /\ request.previousEdits = Some(EditsAB)
    /\ request.resumeSessionId = AgentName(1)

\* C8, as the specification states it: a turn whose stream threw is finalized
\* with status error, and its log gets the synthetic error entry only when no
\* error event of the stream gave one.
C8_OneErrorEntry ==
    last.end = "thrown" =>
      /\ Finalized.status = "error"
      /\ Len(Finalized.agentLog) =
           Len(Logged(Received)) + (IF OfType(Received, "error") = <<>> THEN 1 ELSE 0)

\* C9, as the specification states it: after a turn that received complete
\* events naming an agent session or a user session, however its stream
\* ended, agentSessionId and userSessionId are the ones named last.
C9_AdoptedAfterAnyEnd ==
    last.end # "none" =>
      LET agents == SelectSeq(OfType(Received, "complete"),
                              LAMBDA e : e.session_id \notin {Absent, ""})
          users == SelectSeq(OfType(Received, "complete"),
                             LAMBDA e : e.user_session_id \notin {Absent, ""})
      IN  /\ agents # <<>> => agentSessionId = agents[Len(agents)].session_id
          /\ users # <<>> => userSessionId = users[Len(users)].user_session_id

IdsKept ==
    /\ (Truthy(agentSessionId) /\ agentSessionId' # agentSessionId) =>
         ( /\ TurnEnd
           /\ Truthy(agentSessionId')
           /\ \E i \in 1..Len(turn.events) :
                turn.events[i].type = "complete"
                  /\ turn.events[i].session_id = agentSessionId' )
    /\ (Truthy(userSessionId) /\ userSessionId' # userSessionId) =>
         ( /\ TurnEnd
           /\ Truthy(userSessionId')
           /\ \E i \in 1..Len(turn.events) :
                turn.events[i].type = "complete"
                  /\ turn.events[i].user_session_id = userSessionId' )

C12_ResetClearsAll ==
    [][ handleReset =>
          ( /\ fields' = <<>> /\ messages' = <<>> /\ appliedEdits' = None
            /\ originalPdfBytes' = None /\ filledPdfBytes' = None
            /\ agentSessionId' = Absent /\ userSessionId' = Absent
            /\ sessionId' # sessionId ) ]_vars

\* C13: sessionId is assigned when the page initializes and by no later
\* step.  The initialization keeps the identifier of the URL only when the
\* Session Store gave a snapshot for it, and takes up that snapshot; otherwise
\* it creates an identifier the store holds nothing for.
C13_SessionIdOnce ==
    [][ /\ ~Reload => sessionId' = sessionId
        /\ (Reload /\ sessionId' = sessionId) =>
             ( /\ storage[sessionId] # None
               /\ messages' = storage[sessionId][1].messages
               /\ fields' = storage[sessionId][1].fields )
        /\ (Reload /\ sessionId' # sessionId) =>
             ( storage[sessionId'] = None /\ messages' = <<>> /\ fields' = <<>> ) ]_vars

\* A page that was opened again without a snapshot to load works under a new
\* sessionId, through a file selection, an analysis and the start of a turn.
C13_Witness == sessionId # SessionName(1) /\ turn.pc = "streaming"

\* The field keys of an optional edit map.
Keys(edits) == IF edits = None THEN {} ELSE DOMAIN edits[1]

\* C14, as the specification states it: after a turn, appliedEdits still has
\* every field key it had when the turn started, whatever map the backend
\* reported.
C14_EditsGrow ==
    last.end # "none" => Keys(last.turn.appliedEdits) \subseteq Keys(appliedEdits)

\* C15: when the restore fetches answer, each answer that is there is
\* applied (the filled document with the switch to the filled view, the
\* original document, the context files) and each piece without an answer is
\* left as it was, whatever the other two fetches answered; the fetches are
\* pending exactly after an initialization that loaded a userSessionId.
C15_RestoreIndependent ==
    [][ /\ RestoreFetched =>
             LET got == restore'.answers[1]
             IN  /\ filledPdfBytes' = IF got.filled # None THEN got.filled
                                                           ELSE filledPdfBytes
                 /\ got.filled # None => pdfDisplayMode' = "filled"
                 /\ originalPdfBytes' = IF got.original # None THEN got.original
                                                               ELSE originalPdfBytes
                 /\ contextFiles' = IF got.context # None THEN got.context[1]
                                                          ELSE contextFiles
        /\ Reload => (restore'.pending = userSessionId'
                        /\ (restore'.pending # Absent <=> userSessionId' # Absent)) ]_vars

\* The filled document and the context files were restored although the
\* fetch of the original document gave nothing.
C15_Witness ==
    /\ restore.answers # None
    /\ restore.answers[1].original = None
    /\ filledPdfBytes = Some(BackendPdf) /\ originalPdfBytes = None
    /\ contextFiles = BackendContext /\ pdfDisplayMode = "filled"

\* C16: the analysis call and the parse stream never run together with a
\* fill turn: in no reachable state is isProcessing true together with
\* isAnalyzing or isUploadingContext.
C16_TurnAlone == ~(isProcessing /\ (isAnalyzing \/ isUploadingContext))

\* C17: the stream of a turn in flight was opened with the filled document,
\* the applied edits (previousEdits) and the agentSessionId to resume only
\* if the turn is a continuation (all three absent on a fresh turn), and with
\* the userSessionId the turn started with in any case.
C17_OnlyIfContinuing ==
    turn.pc = "streaming" =>
        /\ request.isContinuation = turn.isContinuation
        /\ request.userSessionId = turn.userSessionId
        /\ ~request.isContinuation =>
               /\ request.filledPdfBytes = None
               /\ request.previousEdits = None
               /\ request.resumeSessionId = Absent

\* C18: once a turn has ended, the snapshot of its session holds the turn's
\* user message followed by its assistant message with an activity-log entry
\* for every logged event of the turn: no write from the end of the turn on
\* puts the stored messages back to what they were before the turn.
C18_NoRollback ==
    last.end # "none" =>
      LET stored == storage[last.turn.sessionId]
      IN  /\ stored # None
          /\ \E j \in 2..Len(stored[1].messages) :
               /\ stored[1].messages[j].id = last.turn.assistantId
               /\ stored[1].messages[j - 1].role = "user"
               /\ Len(stored[1].messages[j].agentLog) >= Len(Logged(last.turn.events))

\* C19: when the stream of a turn that ended normally held an error event,
\* the content of the turn's message is the text of an error event of that
\* stream, verbatim, whatever other events the stream held.
C19_ErrorVerbatim ==
    LET errors == OfType(Received, "error")
    IN  last.end = "normal" /\ errors # <<>> =>
            \E i \in 1..Len(errors) : Finalized.content = errors[i].error

\* C20: the fold of a pdf_ready event that carries document bytes sets the
\* filled document to the decoded bytes of that event and the view to
\* "filled", and the fold of any other event leaves the filled document; so
\* when the stream ends, the document the turn holds is that of its last such
\* event, and the end itself does not touch the filled document.  No step of
\* a fill turn changes the original document (the uploaded file, the restored
\* bytes) or the fields.
C20_PdfReady ==
    [][ /\ (TurnEvent \/ TurnEventAny) =>
             LET event == turn'.events[Len(turn'.events)]
                 carries == /\ event.type = "pdf_ready"
                            /\ event.pdf_bytes # None
                            /\ event.pdf_bytes[1] # <<>>
             IN  /\ filledPdfBytes' = IF carries THEN <<hexToBytes(event.pdf_bytes[1])>>
                                                 ELSE filledPdfBytes
                 /\ carries => pdfDisplayMode' = "filled"
        /\ (TurnEnd \/ TurnThrow) =>
             LET docs == SelectSeq(OfType(turn.events, "pdf_ready"),
                                   LAMBDA e : e.pdf_bytes \notin {None, <<<<>>>>})
             IN  /\ filledPdfBytes' = filledPdfBytes
                 /\ turn.newFilledPdfBytes =
                      IF docs = <<>> THEN None
                      ELSE <<hexToBytes(docs[Len(docs)].pdf_bytes[1])>>
        /\ (Submit \/ TurnEvent \/ TurnEventAny \/ TurnEnd \/ TurnThrow) =>
             (file' = file /\ originalPdfBytes' = originalPdfBytes /\ fields' = fields) ]_vars

\* A stream gave two documents: the filled document is the second one, not
\* the first, the view is "filled", the uploaded file and the fields are there.
C20_Witness ==
    LET docs == OfType(turn.events, "pdf_ready")
    IN  /\ turn.pc = "streaming" /\ Len(docs) = 2
        /\ filledPdfBytes = Some(hexToBytes(Get(docs[2].pdf_bytes)))
        /\ filledPdfBytes # Some(hexToBytes(Get(docs[1].pdf_bytes)))
        /\ pdfDisplayMode = "filled" /\ file # NoFile /\ fields # <<>>

\* The text of a friendly description without its markup.
Plain(f) ==
    CASE f = SetName -> "Set name field"
      [] f = SetDate -> "Set date field"
      [] f = CheckBox -> "Check box"
      [] f = OnlyMarkup -> ""

\* The tool-call entry of a non-empty list of friendly descriptions.
ToolEntry(fr) ==
    IF Len(fr) = 1
    THEN [type |-> "tool_call", content |-> Plain(fr[1]), details |-> Absent]
    ELSE [type |-> "tool_call",
          content |-> "Filling " \o ToString(Len(fr)) \o " fields",
          details |-> Join([i \in 1..Len(fr) |-> Plain(fr[i])], ", ")]

\* C21: the tool-call entries of the placeholder of a turn in flight are, in
\* order, one for each tool_use event received with a non-empty list of
\* friendly descriptions: for one description its text without the markup,
\* for k > 1 "Filling k fields" with the texts joined by ", " as the detail;
\* a tool_use event without a list or with an empty one gave no entry.
C21_ToolUseEntry ==
    turn.pc = "streaming" =>
      LET tools == SelectSeq(OfType(turn.events, "tool_use"),
                             LAMBDA e : e.friendly \notin {None, <<<<>>>>})
          made == SelectSeq(MessageOf(turn.assistantId).agentLog,
                            LAMBDA l : l.type = "tool_call")
      IN  made = [i \in 1..Len(tools) |-> ToolEntry(tools[i].friendly[1])]

\* Three tool_use events were received, one of them with an empty list: the
\* log holds the entry of the two descriptions of the specification's
\* scenario and the entry of one description.
C21_Witness ==
    /\ turn.pc = "streaming" /\ Len(turn.events) = 3
    /\ \E i \in 1..3 : turn.events[i].friendly = Some(<<>>)
    /\ MessageOf(turn.assistantId).agentLog =
         << [type |-> "tool_call", content |-> "Filling 2 fields",
             details |-> "Set name field, Set date field"],
            [type |-> "tool_call", content |-> "Set name field", details |-> Absent] >>

\* C22: when a parse of context files starts and the session has no
\* userSessionId, the step gives it one that is not absent and the parse
\* stream is opened with that one; when the session has a userSessionId,
\* the step leaves it and the parse stream is opened with it.
C22_MintOnce ==
    [][ ParseStart =>
          /\ parse'.currentUserSessionId = userSessionId'
          /\ userSessionId' \notin {Absent, ""}
          /\ userSessionId \notin {Absent, ""} => userSessionId' = userSessionId ]_vars

\* A parse runs with the userSessionId a turn took over from the backend,
\* and the session still has that one.
C22_Witness ==
    /\ parse.pc = "streaming" /\ last.end = "normal"
    /\ parse.currentUserSessionId = UserName(1) /\ userSessionId = UserName(1)

\* C23: a step of a turn in flight (the fold of an event, the normal end, the
\* thrown end) creates no message and changes no message but the
\* placeholder; and across every step that leaves the turn in flight, and
\* across its end, the placeholder's activity log keeps what it held and is
\* never shorter.
C23_OnlyPlaceholder ==
    [][ /\ (TurnEvent \/ TurnEventAny \/ TurnEventTool \/ TurnEnd \/ TurnThrow) =>
             /\ Len(messages') = Len(messages)
             /\ \A i \in 1..Len(messages) :
                  messages[i].id # turn.assistantId => messages'[i] = messages[i]
        /\ (turn.pc = "streaming" /\ (turn'.pc = "streaming" \/ TurnEnd \/ TurnThrow)) =>
             \A i \in 1..Len(messages) :
               messages[i].id = turn.assistantId =>
                 /\ i <= Len(messages') /\ messages'[i].id = turn.assistantId
                 /\ Len(messages'[i].agentLog) >= Len(messages[i].agentLog)
                 /\ SubSeq(messages'[i].agentLog, 1, Len(messages[i].agentLog))
                      = messages[i].agentLog ]_vars

\* A turn in flight has folded two events into its placeholder, which is the
\* last of three messages; the first two are as they were when it started.
C23_Witness ==
    /\ turn.pc = "streaming" /\ Len(messages) = 3
    /\ messages[3].id = turn.assistantId /\ Len(messages[3].agentLog) = 2
    /\ messages[3].agentLog[1] # messages[3].agentLog[2]
    /\ messages[1] = turn.messages[1] /\ messages[2].role = "user"

\* The one result of a complete event of the parse stream that has content
\* and no error, as a context file.
ParsedNotes == [filename |-> "a.txt", content |-> "notes", was_parsed |-> TRUE]

\* C24: a parse leaves the list of context files while it starts and while
\* its stream yields events; when the stream ends normally the list gets, at
\* its end and in order, the results with content and without error of each
\* complete event received, and no message; when the stream throws the list
\* stays and one system message with the error is appended; both ends reset
\* isUploadingContext and parseProgress.
C24_ParseOnce ==
    [][ /\ (ParseStart \/ ParseEvent) => contextFiles' = contextFiles
        /\ ParseEnd =>
             /\ contextFiles' =
                  contextFiles \o [i \in 1..parse.completes |-> ParsedNotes]
             /\ messages' = messages
             /\ ~isUploadingContext' /\ parseProgress' = None
        /\ ParseThrow =>
             /\ contextFiles' = contextFiles
             /\ Len(messages') = Len(messages) + 1
             /\ SubSeq(messages', 1, Len(messages)) = messages
             /\ messages'[Len(messages')].role = "system"
             /\ messages'[Len(messages')].content = "Error parsing files: network"
             /\ ~isUploadingContext' /\ parseProgress' = None ]_vars

\* A parse whose stream gave a progress event and two complete events has
\* ended: the list holds the good result twice, and the flags are reset.
C24_Witness ==
    /\ parse.pc = "idle" /\ delivered = 3
    /\ contextFiles = <<ParsedNotes, ParsedNotes>>
    /\ ~isUploadingContext /\ parseProgress = None

\* C25: a submission made while no file is loaded or no field is detected
\* opens no stream, appends no message and leaves isProcessing; a submission
\* that opens a stream appends, before it, exactly the user message with the
\* text submitted and, right after it, the empty placeholder with status
\* "streaming", and sets isProcessing.
C25_NoTurnWithoutForm ==
    [][ Submit =>
          /\ (file = NoFile \/ fields = <<>>) =>
               /\ messages' = messages /\ opened' = opened /\ inFlight' = inFlight
               /\ isProcessing' = isProcessing /\ turn' = turn
          /\ opened' # opened =>
               /\ opened' = opened + 1 /\ isProcessing'
               /\ Len(messages') = Len(messages) + 2
               /\ SubSeq(messages', 1, Len(messages)) = messages
               /\ LET userMessage == messages'[Len(messages) + 1]
                      assistantMessage == messages'[Len(messages) + 2]
                  IN  /\ userMessage.role = "user" /\ userMessage.content \in Inputs
                      /\ userMessage.content = request'.instructions
                      /\ assistantMessage.role = "assistant"
                      /\ assistantMessage.status = "streaming"
                      /\ assistantMessage.content = "" /\ assistantMessage.agentLog = <<>>
                      /\ assistantMessage.id # userMessage.id
          /\ opened' = opened => messages' = messages ]_vars

\* A turn has just started on a form with fields: the last two messages are
\* the user message and the placeholder, and no event has come.
C25_Witness ==
    /\ turn.pc = "streaming" /\ turn.events = <<>> /\ isProcessing
    /\ file # NoFile /\ fields # <<>> /\ opened = 1
    /\ messages[Len(messages) - 1].role = "user"
    /\ messages[Len(messages)].status = "streaming"

\* C26: in every reachable state, a page reloaded from a snapshot written
\* during a stream included, a message has status "streaming" only while a
\* turn is in flight (isProcessing is true).
C26_StreamingOnlyInFlight ==
    \A i \in 1..Len(messages) : messages[i].status = "streaming" => isProcessing

\* C27: in every reachable state the view is "filled" only if there is a
\* filled document.
C27_FilledModeHasPdf == pdfDisplayMode = "filled" => filledPdfBytes # None

\* The user went back to the original view and to the filled one again,
\* after a turn that gave a filled document.
C27_Witness ==
    /\ pdfDisplayMode = "filled" /\ filledPdfBytes # None
    /\ last.end = "normal" /\ ops = MaxOps /\ opened = 1

\* C28: an answer of analyzePdf is taken only when it is for the file that
\* is selected (one for a file the user has left by a reset or by another
\* selection is dropped), so that the fields are those of the selected file;
\* and after an answer isAnalyzing stays true while the analysis of the
\* selected file is pending.
C28_FieldsOfSelectedFile ==
    [][ (AnalysisDone \/ AnalysisFail) =>
          /\ \A f \in analyses \ analyses' : f = file
          /\ file \in analyses' => isAnalyzing' ]_vars

\* C29, as stated: in a session restored from the store, which has no file,
\* a submission is answered by the system message "Please upload a PDF
\* first".
C29_AnsweredByMessage ==
    (restore # NoRestore /\ file = NoFile) =>
        ENABLED (Submit /\ messages' = Append(messages,
                     createMessage(NewId(messages), "system",
                                   "Please upload a PDF first", "complete")))

\* C29, amended: a page reloaded from the store has no file and no
\* agentSessionId; and while no file is selected no submission has any
\* effect: no message is appended (not even "Please upload a PDF first"), no
\* stream is opened, and isProcessing, appliedEdits, agentSessionId and
\* userSessionId stay.
C29_NoTurnWithoutFile ==
    /\ [](file = NoFile =>
            ~ENABLED (Submit /\ <<messages, opened, inFlight, request, turn, isProcessing,
                                  appliedEdits, agentSessionId, userSessionId>>'
                                # <<messages, opened, inFlight, request, turn,
                                    isProcessing, appliedEdits, agentSessionId,
                                    userSessionId>>))
    /\ [][Reload => (file' = NoFile /\ agentSessionId' = Absent /\ ~isProcessing'
                       /\ turn'.pc = "idle")]_vars

\* A restored session: the fields and the messages are back, the restore
\* fetches are pending, there is no file and no agentSessionId.
C29_Witness ==
    /\ restore.pending # Absent /\ file = NoFile /\ agentSessionId = Absent
    /\ fields # <<>> /\ messages # <<>> /\ ~isProcessing

\* C30: the normal end of a stream that gave no complete event and no error
\* event sets the placeholder to status "complete" with the content
\* "Filled 0 fields." and leaves appliedEdits, agentSessionId and
\* userSessionId.
C30_EmptyStream ==
    [][ ( /\ TurnEnd
          /\ OfType(turn.events, "complete") = <<>>
          /\ OfType(turn.events, "error") = <<>> ) =>
          /\ \A i \in 1..Len(messages) :
               messages[i].id = turn.assistantId =>
                 /\ messages'[i].status = "complete"
                 /\ messages'[i].content = "Filled 0 fields."
          /\ appliedEdits' = appliedEdits
          /\ agentSessionId' = agentSessionId
          /\ userSessionId' = userSessionId ]_vars

\* A second turn ended normally after a pdf_ready event and an event without
\* meaning: the edits and the identifiers of the first turn are still there.
C30_Witness ==
    /\ last.end = "normal" /\ Len(Received) = 2
    /\ OfType(Received, "complete") = <<>> /\ OfType(Received, "error") = <<>>
    /\ Finalized.status = "complete" /\ Finalized.content = "Filled 0 fields."
    /\ filledPdfBytes # None /\ opened = 2
    /\ agentSessionId = AgentName(1) /\ userSessionId = UserName(1)
    /\ appliedEdits = Some(EditsAB)
====
